---- MODULE Spec2Model ----
(***************************************************************************)
(* Model of the ICS2000 Home Assistant platforms                           *)
(*   custom_components/ics2000/cover.py  (KlikAanKlikUitCover)             *)
(*   custom_components/ics2000/switch.py (KlikAanKlikUitAwningSwitch)      *)
(*                                                                         *)
(* The host calls the entity methods one at a time: each method is one     *)
(* action.  Every started threading.Thread is an element of the bag        *)
(* `threads` from start() until its target has returned; a thread advances *)
(* one statement of its target per step, so the statements of different    *)
(* threads interleave freely with each other and with the host's calls.    *)
(* ConcurrentSpec runs the guarded methods statement by statement on       *)
(* concurrent host threads instead.                                        *)
(***************************************************************************)
EXTENDS Integers, Sequences, FiniteSets, Bags, TLC

\* ------------------------------------------------------------------ bounds
\* Largest number of threads alive at the same time.
MaxThreads == 2
\* Largest configured `tries`.
MaxTries == 2

\* ------------------------------------------------------- program constants
\* config.get('sleep', 3): the delay, in seconds, of a configuration that
\* does not set `sleep`.
DefaultSleep == 3
\* time.sleep(0.5) of _execute_movement; durations are counted in half seconds.
HoldDelay == 1

\* Duration of time.sleep(s) for s whole seconds, in half seconds.
Seconds(s) == 2 * s

\* The device ids of hub.devices.
Devices == {"12345", "67890"}

\* KlikAanKlikUitAwningAction, also the direction of a switch entity.
AwningActions == {"up", "down"}

VARIABLES
    cover_devices,  \* config 'cover_devices': the devices that got a cover entity
    awning_devices, \* config 'awning_devices': the devices that got two switches
    tries,          \* self.tries of every entity: int(config.get('tries', 1))
    sleep,          \* self.sleep of every entity: int(config.get('sleep', 3))
    is_closed,      \* cover entity of device d: _is_closed
    is_opening,     \* cover entity of device d: _is_opening
    is_closing,     \* cover entity of device d: _is_closing
    is_on,          \* switch entity <<d, direction>>: _is_on
    threads,        \* bag of the threads threading.enumerate() lists
    out             \* what the host call of the last step asked of the host

vars == <<cover_devices, awning_devices, tries, sleep,
          is_closed, is_opening, is_closing, is_on, threads, out>>

cfg_vars == <<cover_devices, awning_devices, tries, sleep>>
cover_state == <<is_closed, is_opening, is_closing>>

\* ----------------------------------------------------------------- threads
\* Thread name: f'cover{action.value}{device_id}'
CoverThreadName(action, device_id) == <<"cover", action, device_id>>

\* Thread name: f'awning{action.value}{device_id}'
AwningThreadName(action, device_id) == <<"awning", action, device_id>>

\* One entry of a thread's history: a hub command (k = "turn_on"/"turn_off",
\* ok = it returned without raising), a time.sleep (k = "sleep", t = its
\* duration) or a schedule_update_ha_state (k = "update").
Ev(k, ok, t) == [k |-> k, ok |-> ok, t |-> t]

\* A thread object right after start(): its target has not run a statement yet.
NewThread(name, hub_function) ==
    [name |-> name, pc |-> "start", i |-> 0, hub_function |-> hub_function, ev |-> <<>>]

Alive == BagToSet(threads)

Start(t) == threads (+) SetToBag({t})

Replace(t, u) == (threads (-) SetToBag({t})) (+) SetToBag({u})

\* Mutant: the guard of the cover platform forgets the Stop threads.
MutCoverIgnoresStop(device_id) ==
    \E t \in Alive : t.name \in { CoverThreadName("open", device_id),
                                  CoverThreadName("close", device_id) }

\* Mutant: the guard of the cover platform matches the cover threads of every
\* device.
MutCoverAnyDevice(device_id) ==
    \E t \in Alive : t.name[1] = "cover"

\* KlikAanKlikUitCoverThread.has_running_threads
Cover_has_running_threads(device_id) ==
    \E t \in Alive : t.name \in { CoverThreadName("open", device_id),
                                  CoverThreadName("close", device_id),
                                  CoverThreadName("stop", device_id) }

\* Mutant: the guard of the switch platform looks for the Up thread only.
MutAwningOnlyUp(device_id) ==
    \E t \in Alive : t.name \in { AwningThreadName("up", device_id) }

\* KlikAanKlikUitAwningThread.has_running_threads
Awning_has_running_threads(device_id) ==
    \E t \in Alive : t.name \in { AwningThreadName("up", device_id),
                                  AwningThreadName("down", device_id) }

\* Room for one more thread (bound of the model).
CanStart == BagCardinality(threads) < MaxThreads

\* What a host call leaves behind besides the entity state and the threads:
\* "refresh", a schedule_update_ha_state of the entity; "ignored", the log
\* line of a dropped request; "stopped", the early return of stop_cover.  The
\* hub commands and the refresh requests of a thread are entries of its
\* history ev.
NoOut == "none"

\* -------------------------------------------------------------------- Init
\* The configurations of cover_devices: no device, one device, both devices
\* (the device ids are interchangeable).
CoverConfigs == { {}, {"12345"}, Devices }

\* The configurations of tries: none (the default of config.get('tries', 1))
\* and the largest.
TriesConfigs == {1, MaxTries}

\* setup_platform of both platforms with a connected hub.  Every device of the
\* hub is listed in one of cover_devices and awning_devices; every entity is
\* built with the configured tries and the default sleep.  Both platforms
\* are given the same tries and sleep.
Init ==
    /\ cover_devices \in CoverConfigs
    /\ awning_devices = Devices \ cover_devices
    /\ tries \in TriesConfigs
    /\ sleep = DefaultSleep
    /\ is_closed = [d \in Devices |-> "None"]
    /\ is_opening = [d \in Devices |-> FALSE]
    /\ is_closing = [d \in Devices |-> FALSE]
    /\ is_on = [e \in Devices \X AwningActions |-> FALSE]
    /\ threads = EmptyBag
    /\ out = NoOut

\* ------------------------------------------------------- cover: host calls
\* Mutant: open_cover with the two flags of close_cover.
MutOpenCoverSwapped(d) ==
    /\ d \in cover_devices
    /\ IF Cover_has_running_threads(d)
       THEN /\ out' = "ignored"
            /\ UNCHANGED <<cfg_vars, cover_state, is_on, threads>>
       ELSE /\ CanStart
            /\ is_closing' = [is_closing EXCEPT ![d] = TRUE]
            /\ is_opening' = [is_opening EXCEPT ![d] = FALSE]
            /\ out' = "refresh"
            /\ threads' = Start(NewThread(CoverThreadName("open", d), "None"))
            /\ UNCHANGED <<cfg_vars, is_closed, is_on>>

\* Mutant: open_cover sets both flags.
MutOpenCoverBothTrue(d) ==
    /\ d \in cover_devices
    /\ IF Cover_has_running_threads(d)
       THEN /\ out' = "ignored"
            /\ UNCHANGED <<cfg_vars, cover_state, is_on, threads>>
       ELSE /\ CanStart
            /\ is_opening' = [is_opening EXCEPT ![d] = TRUE]
            /\ is_closing' = [is_closing EXCEPT ![d] = TRUE]
            /\ out' = "refresh"
            /\ threads' = Start(NewThread(CoverThreadName("open", d), "None"))
            /\ UNCHANGED <<cfg_vars, is_closed, is_on>>

open_cover(d) ==
    /\ d \in cover_devices
    /\ IF Cover_has_running_threads(d)
       THEN /\ out' = "ignored"
            /\ UNCHANGED <<cfg_vars, cover_state, is_on, threads>>
       ELSE /\ CanStart
            /\ is_opening' = [is_opening EXCEPT ![d] = TRUE]
            /\ is_closing' = [is_closing EXCEPT ![d] = FALSE]
            /\ out' = "refresh"
            /\ threads' = Start(NewThread(CoverThreadName("open", d), "None"))
            /\ UNCHANGED <<cfg_vars, is_closed, is_on>>

close_cover(d) ==
    /\ d \in cover_devices
    /\ IF Cover_has_running_threads(d)
       THEN /\ out' = "ignored"
            /\ UNCHANGED <<cfg_vars, cover_state, is_on, threads>>
       ELSE /\ CanStart
            /\ is_closing' = [is_closing EXCEPT ![d] = TRUE]
            /\ is_opening' = [is_opening EXCEPT ![d] = FALSE]
            /\ out' = "refresh"
            /\ threads' = Start(NewThread(CoverThreadName("close", d), "None"))
            /\ UNCHANGED <<cfg_vars, is_closed, is_on>>

\* Mutant: stop_cover picks the signal of the direction itself.
MutStopSameSignal(d) ==
    IF is_opening[d] THEN "turn_on"
    ELSE IF is_closing[d] THEN "turn_off"
    ELSE "None"

\* The hub function stop_cover picks: the opposite signal of the direction.
StopHubFunction(d) ==
    IF is_opening[d] THEN "turn_off"
    ELSE IF is_closing[d] THEN "turn_on"
    ELSE "None"

\* Mutant: stop_cover of a cover that is not moving forgets the position.
MutStopResetsIdle(d) ==
    /\ d \in cover_devices
    /\ IF StopHubFunction(d) = "None"
       THEN /\ out' = "refresh"
            /\ is_closed' = [is_closed EXCEPT ![d] = "None"]
            /\ UNCHANGED <<cfg_vars, is_opening, is_closing, is_on, threads>>
       ELSE /\ CanStart
            /\ out' = NoOut
            /\ threads' = Start(NewThread(CoverThreadName("stop", d), StopHubFunction(d)))
            /\ UNCHANGED <<cfg_vars, cover_state, is_on>>

stop_cover(d) ==
    /\ d \in cover_devices
    /\ IF StopHubFunction(d) = "None"
       THEN /\ out' = "stopped"
            /\ UNCHANGED <<cfg_vars, cover_state, is_on, threads>>
       ELSE /\ CanStart
            /\ out' = NoOut
            /\ threads' = Start(NewThread(CoverThreadName("stop", d), StopHubFunction(d)))
            /\ UNCHANGED <<cfg_vars, cover_state, is_on>>

\* KlikAanKlikUitCover.update
cover_update(d) ==
    /\ d \in cover_devices
    /\ out' = NoOut
    /\ UNCHANGED <<cfg_vars, cover_state, is_on, threads>>

\* ------------------------------------------- cover: _execute_cover_action
IsCoverThread(t) == t.name[1] = "cover"

\* The hub command the try block of _execute_cover_action issues.
CoverHubCommand(t) ==
    CASE t.name[2] = "open" -> "turn_on"
      [] t.name[2] = "close" -> "turn_off"
      [] OTHER -> t.hub_function

\* try: one hub command, which returns (ok) or raises (caught by except).
execute_cover_action_try(t) ==
    /\ IsCoverThread(t) /\ t.pc = "start"
    /\ \E ok \in BOOLEAN :
         LET cmd == CoverHubCommand(t)
         IN /\ cmd = "None" => ok
            /\ threads' = Replace(t, [t EXCEPT !.pc = "fin_flags",
                                               !.ev = IF cmd = "None" THEN @
                                                      ELSE Append(@, Ev(cmd, ok, 0))])
            /\ out' = NoOut
    /\ UNCHANGED <<cfg_vars, cover_state, is_on>>

\* Mutant: the finally block leaves the two flags as they are.
MutFinFlagsKept(t) ==
    /\ IsCoverThread(t) /\ t.pc = "fin_flags"
    /\ threads' = Replace(t, [t EXCEPT !.pc = "fin_closed"])
    /\ out' = NoOut
    /\ UNCHANGED <<cfg_vars, cover_state, is_on>>

\* finally: self._is_opening = False; self._is_closing = False
execute_cover_action_fin_flags(t) ==
    /\ IsCoverThread(t) /\ t.pc = "fin_flags"
    /\ is_opening' = [is_opening EXCEPT ![t.name[3]] = FALSE]
    /\ is_closing' = [is_closing EXCEPT ![t.name[3]] = FALSE]
    /\ threads' = Replace(t, [t EXCEPT !.pc = "fin_closed"])
    /\ out' = NoOut
    /\ UNCHANGED <<cfg_vars, is_closed, is_on>>

\* The value the finally block gives _is_closed.
FinalClosed(action) ==
    CASE action = "stop" -> "None"
      [] action = "open" -> "False"
      [] action = "close" -> "True"

\* finally: self._is_closed = None / False / True;
\*          self.schedule_update_ha_state()
execute_cover_action_fin_closed(t) ==
    /\ IsCoverThread(t) /\ t.pc = "fin_closed"
    /\ is_closed' = [is_closed EXCEPT ![t.name[3]] = FinalClosed(t.name[2])]
    /\ threads' = Replace(t, [t EXCEPT !.pc = "exit",
                                       !.ev = Append(@, Ev("update", TRUE, 0))])
    /\ out' = NoOut
    /\ UNCHANGED <<cfg_vars, is_opening, is_closing, is_on>>

\* ------------------------------------------------------ switch: host calls
\* The hub function and the action turn_on picks from self.direction.
AwningHubFunction(direction) == IF direction = "up" THEN "turn_on" ELSE "turn_off"

turn_on(d, direction) ==
    /\ d \in awning_devices
    /\ IF Awning_has_running_threads(d)
       THEN /\ out' = "ignored"
            /\ UNCHANGED <<cfg_vars, cover_state, is_on, threads>>
       ELSE /\ CanStart
            /\ out' = NoOut
            /\ threads' = Start(NewThread(AwningThreadName(direction, d),
                                          AwningHubFunction(direction)))
            /\ UNCHANGED <<cfg_vars, cover_state, is_on>>

turn_off(d, direction) ==
    /\ d \in awning_devices
    /\ is_on' = [is_on EXCEPT ![<<d, direction>>] = FALSE]
    /\ out' = "refresh"
    /\ UNCHANGED <<cfg_vars, cover_state, threads>>

\* KlikAanKlikUitAwningSwitch.update
switch_update(d, direction) ==
    /\ d \in awning_devices
    /\ out' = NoOut
    /\ UNCHANGED <<cfg_vars, cover_state, is_on, threads>>

\* ----------------------------------------------- switch: _execute_movement
IsAwningThread(t) == t.name[1] = "awning"

\* The switch entity whose bound method the thread runs.
Entity(t) == <<t.name[3], t.name[2]>>

\* range(0, tries): where the thread goes when i iterations are done.
LoopPc(i) == IF i < tries THEN "repeat" ELSE "hold"

\* try: self._is_on = True; self.schedule_update_ha_state(); then repeat(...)
\* is entered
execute_movement_on(t) ==
    /\ IsAwningThread(t) /\ t.pc = "start"
    /\ is_on' = [is_on EXCEPT ![Entity(t)] = TRUE]
    /\ threads' = Replace(t, [t EXCEPT !.pc = LoopPc(0),
                                       !.ev = Append(@, Ev("update", TRUE, 0))])
    /\ out' = NoOut
    /\ UNCHANGED <<cfg_vars, cover_state>>

\* Mutant: an exception of the hub command leaves the thread at once, no
\* finally block runs.
MutRepeatCallEscapes(t) ==
    /\ IsAwningThread(t) /\ t.pc = "repeat"
    /\ \E ok \in BOOLEAN :
         threads' = Replace(t, [t EXCEPT !.pc = IF ok THEN "sleep" ELSE "exit",
                                         !.ev = Append(@, Ev(t.hub_function, ok, 0))])
    /\ out' = NoOut
    /\ UNCHANGED <<cfg_vars, cover_state, is_on>>

\* repeat: callable_function(**kwargs), which returns (ok) or raises; the
\* exception leaves repeat and is caught by except of _execute_movement.
repeat_call(t) ==
    /\ IsAwningThread(t) /\ t.pc = "repeat"
    /\ \E ok \in BOOLEAN :
         threads' = Replace(t, [t EXCEPT !.pc = IF ok THEN "sleep" ELSE "fin_on",
                                         !.ev = Append(@, Ev(t.hub_function, ok, 0))])
    /\ out' = NoOut
    /\ UNCHANGED <<cfg_vars, cover_state, is_on>>

\* Mutant: repeat sleeps after the last try as well.
MutRepeatSleepAlways(t) ==
    /\ IsAwningThread(t) /\ t.pc = "sleep"
    /\ threads' = Replace(t,
          [t EXCEPT !.pc = LoopPc(t.i + 1),
                    !.i = t.i + 1,
                    !.ev = Append(@, Ev("sleep", TRUE, Seconds(sleep)))])
    /\ out' = NoOut
    /\ UNCHANGED <<cfg_vars, cover_state, is_on>>

\* repeat: time.sleep(sleep if i != tries - 1 else 0), then the next i
repeat_sleep(t) ==
    /\ IsAwningThread(t) /\ t.pc = "sleep"
    /\ threads' = Replace(t,
          [t EXCEPT !.pc = LoopPc(t.i + 1),
                    !.i = t.i + 1,
                    !.ev = Append(@, Ev("sleep", TRUE,
                                        IF t.i # tries - 1 THEN Seconds(sleep) ELSE 0))])
    /\ out' = NoOut
    /\ UNCHANGED <<cfg_vars, cover_state, is_on>>

\* try: time.sleep(0.5)
execute_movement_hold(t) ==
    /\ IsAwningThread(t) /\ t.pc = "hold"
    /\ threads' = Replace(t, [t EXCEPT !.pc = "fin_on",
                                       !.ev = Append(@, Ev("sleep", TRUE, HoldDelay))])
    /\ out' = NoOut
    /\ UNCHANGED <<cfg_vars, cover_state, is_on>>

\* finally: self._is_on = False; self.schedule_update_ha_state()
execute_movement_fin_on(t) ==
    /\ IsAwningThread(t) /\ t.pc = "fin_on"
    /\ is_on' = [is_on EXCEPT ![Entity(t)] = FALSE]
    /\ threads' = Replace(t, [t EXCEPT !.pc = "exit",
                                       !.ev = Append(@, Ev("update", TRUE, 0))])
    /\ out' = NoOut
    /\ UNCHANGED <<cfg_vars, cover_state>>

\* ------------------------------------------------------------ thread exit
\* Mutant: a thread leaves threading.enumerate() before its finally block has
\* written the final state and requested the refresh.
MutThreadExitEarly(t) ==
    /\ t.pc \in {"exit", "fin_closed", "fin_on"}
    /\ threads' = threads (-) SetToBag({t})
    /\ out' = NoOut
    /\ UNCHANGED <<cfg_vars, cover_state, is_on>>

\* Mutant: a thread whose target has returned stays listed.
MutThreadStaysListed(t) ==
    /\ t.pc = "exit"
    /\ threads' = threads
    /\ out' = NoOut
    /\ UNCHANGED <<cfg_vars, cover_state, is_on>>

\* The target has returned: the thread leaves threading.enumerate().
thread_exit(t) ==
    /\ t.pc = "exit"
    /\ threads' = threads (-) SetToBag({t})
    /\ out' = NoOut
    /\ UNCHANGED <<cfg_vars, cover_state, is_on>>

\* -------------------------------------------------------------------- Next
CoverHost ==
    \E d \in Devices : open_cover(d) \/ close_cover(d) \/ stop_cover(d) \/ cover_update(d)

SwitchHost ==
    \E d \in Devices, direction \in AwningActions :
        turn_on(d, direction) \/ turn_off(d, direction) \/ switch_update(d, direction)

\* One statement of the target of thread t.
ThreadStep(t) ==
    \/ execute_cover_action_try(t)
    \/ execute_cover_action_fin_flags(t)
    \/ execute_cover_action_fin_closed(t)
    \/ execute_movement_on(t)
    \/ repeat_call(t)
    \/ repeat_sleep(t)
    \/ execute_movement_hold(t)
    \/ execute_movement_fin_on(t)
    \/ thread_exit(t)

CoverTry == \E t \in Alive : execute_cover_action_try(t)

CoverFinFlags == \E t \in Alive : execute_cover_action_fin_flags(t)

CoverFinClosed == \E t \in Alive : execute_cover_action_fin_closed(t)

MovementOn == \E t \in Alive : execute_movement_on(t)

RepeatCall == \E t \in Alive : repeat_call(t)

RepeatSleep == \E t \in Alive : repeat_sleep(t)

MovementHold == \E t \in Alive : execute_movement_hold(t)

MovementFinOn == \E t \in Alive : execute_movement_fin_on(t)

ThreadExit == \E t \in Alive : thread_exit(t)

Next ==
    \/ CoverHost
    \/ SwitchHost
    \/ CoverTry
    \/ CoverFinFlags
    \/ CoverFinClosed
    \/ MovementOn
    \/ RepeatCall
    \/ RepeatSleep
    \/ MovementHold
    \/ MovementFinOn
    \/ ThreadExit

Spec == Init /\ [][Next]_vars

\* ---------------------------------------------------------------- fairness
AwningThreadNames == { AwningThreadName(a, d) : a \in AwningActions, d \in Devices }

\* The switch platform alone: a configuration that lists every device in
\* awning_devices and none in cover_devices.
InitSwitch == Init /\ cover_devices = {}

NextSwitch ==
    \/ SwitchHost
    \/ MovementOn
    \/ RepeatCall
    \/ RepeatSleep
    \/ MovementHold
    \/ MovementFinOn
    \/ ThreadExit

\* The scheduler runs every started awning thread again and again, and every
\* hub command and every sleep returns or raises.  Nothing is assumed of the
\* host: it may call turn_on and turn_off at any time or never.
FairSwitchSpec ==
    /\ InitSwitch
    /\ [][NextSwitch]_vars
    /\ \A n \in AwningThreadNames : WF_vars(\E t \in Alive : t.name = n /\ ThreadStep(t))

\* Both platforms: a configuration with one cover and one awning device and
\* the largest tries, the longest loop of repeat.
InitBoth == Init /\ cover_devices = {"12345"} /\ tries = MaxTries

CoverThreadNames ==
    { CoverThreadName(a, d) : a \in {"open", "close", "stop"}, d \in Devices }

\* The names of the threads that configuration can start.
ThreadNamesBoth ==
    { n \in CoverThreadNames : n[3] = "12345" } \cup { n \in AwningThreadNames : n[3] = "67890" }

\* The scheduler runs every started thread, cover or awning, again and again,
\* and every hub command and every sleep returns or raises.  Nothing is
\* assumed of the host.
FairSpec ==
    /\ InitBoth
    /\ [][Next]_vars
    /\ \A n \in ThreadNamesBoth : WF_vars(\E t \in Alive : t.name = n /\ ThreadStep(t))

\* ------------------------------------------- host calls, statement by statement
\* The host runs the synchronous entity methods on the threads of its
\* executor, so two calls can run at the same time.  A call in progress is a
\* thread of the bag as well; its name is none of the names the guards look
\* for.  Here it is named after the request it serves: "open" for open_cover,
\* "close" for close_cover, "up" and "down" for turn_on of the Up and the Down
\* entity of the device.
HostRequests == {"open", "close", "up", "down"}

HostThread(request, d) ==
    [name |-> <<"host", request, d>>, pc |-> "guard", i |-> 0,
     hub_function |-> "None", ev |-> <<>>]

IsHostThread(t) == t.name[1] = "host"

\* The host enters open_cover, close_cover or turn_on of an entity of device d.
host_call(request, d) ==
    /\ d \in (IF request \in {"open", "close"} THEN cover_devices ELSE awning_devices)
    /\ CanStart
    /\ threads' = Start(HostThread(request, d))
    /\ out' = NoOut
    /\ UNCHANGED <<cfg_vars, cover_state, is_on>>

\* if ...Thread.has_running_threads(self._id): log and return
host_guard(t) ==
    /\ IsHostThread(t) /\ t.pc = "guard"
    /\ IF t.name[2] \in {"open", "close"}
       THEN IF Cover_has_running_threads(t.name[3])
            THEN threads' = threads (-) SetToBag({t}) /\ out' = "ignored"
            ELSE threads' = Replace(t, [t EXCEPT !.pc = "write"]) /\ out' = NoOut
       ELSE IF Awning_has_running_threads(t.name[3])
            THEN threads' = threads (-) SetToBag({t}) /\ out' = "ignored"
            ELSE threads' = Replace(t, [t EXCEPT !.pc = "start"]) /\ out' = NoOut
    /\ UNCHANGED <<cfg_vars, cover_state, is_on>>

\* open_cover / close_cover: the two flag writes and schedule_update_ha_state()
host_write(t) ==
    /\ IsHostThread(t) /\ t.pc = "write"
    /\ is_opening' = [is_opening EXCEPT ![t.name[3]] = (t.name[2] = "open")]
    /\ is_closing' = [is_closing EXCEPT ![t.name[3]] = (t.name[2] = "close")]
    /\ threads' = Replace(t, [t EXCEPT !.pc = "start"])
    /\ out' = "refresh"
    /\ UNCHANGED <<cfg_vars, is_closed, is_on>>

\* ...Thread(action, device_id, target, kwargs).start(), and the method returns
host_start(t) ==
    /\ IsHostThread(t) /\ t.pc = "start"
    /\ threads' = Replace(t,
          IF t.name[2] \in {"open", "close"}
          THEN NewThread(CoverThreadName(t.name[2], t.name[3]), "None")
          ELSE NewThread(AwningThreadName(t.name[2], t.name[3]),
                         AwningHubFunction(t.name[2])))
    /\ out' = NoOut
    /\ UNCHANGED <<cfg_vars, cover_state, is_on>>

HostCall == \E request \in HostRequests, d \in Devices : host_call(request, d)

HostGuard == \E t \in Alive : host_guard(t)

HostWrite == \E t \in Alive : host_write(t)

HostStart == \E t \in Alive : host_start(t)

NextConcurrent ==
    \/ HostCall
    \/ HostGuard
    \/ HostWrite
    \/ HostStart
    \/ CoverTry
    \/ CoverFinFlags
    \/ CoverFinClosed
    \/ MovementOn
    \/ RepeatCall
    \/ RepeatSleep
    \/ MovementHold
    \/ MovementFinOn
    \/ ThreadExit

\* The guarded dispatch calls run by concurrent host threads; stop_cover,
\* turn_off and update, which consult no guard, are actions of Spec.
ConcurrentSpec == Init /\ [][NextConcurrent]_vars

\* ============================================================== properties
\* The threads alive for device d on each platform, whatever their action.
CoverWorkers(d) == { t \in Alive : t.name[1] = "cover" /\ t.name[3] = d }

AwningWorkers(d) == { t \in Alive : t.name[1] = "awning" /\ t.name[3] = d }

\* The number of threads of the bag that are in S.
Count(S) == BagCardinality([t \in S |-> threads[t]])

\* The hub commands in the history of thread t.
HubEvents(t) == SelectSeq(t.ev, LAMBDA e : e.k \in {"turn_on", "turn_off"})

\* Every hub command of thread t returned without raising.
AllOk(t) == \A n \in 1..Len(t.ev) : t.ev[n].ok

\* C1: cover platform: at most one cover worker (Open, Close or Stop) of a
\* device is alive after every step, and an open_cover, close_cover or
\* stop_cover for a device with a live worker starts no thread.
C1_OneCoverWorkerPerDevice ==
    [][\A d \in Devices :
         /\ Count(CoverWorkers(d))' <= 1
         /\ ((open_cover(d) \/ close_cover(d) \/ stop_cover(d)) /\ CoverWorkers(d) # {})
                => threads' = threads]_vars

\* C2: switch platform: in every reachable state at most one awning worker
\* (Up or Down) of a device is alive, and a turn_on on either entity of the
\* device while a worker of the device is alive leaves the threads (so also
\* the hub commands they issued) and the entity state as they were.
C2_OneAwningWorkerPerDevice ==
    /\ [](\A d \in Devices : Count(AwningWorkers(d)) <= 1)
    /\ [][\A d \in Devices, direction \in AwningActions :
            (turn_on(d, direction) /\ AwningWorkers(d) # {})
                => UNCHANGED <<threads, is_on>>]_vars

\* C2 witness: a turn_on was dropped while the Up worker of a device is the
\* only thread alive (so the dropped request is a turn_on for that device).
C2_Witness ==
    /\ out = "ignored"
    /\ \E d \in Devices :
         /\ Alive = AwningWorkers(d)
         /\ \E t \in Alive : t.name[2] = "up"

\* C3: right after an Open worker whose hub command succeeded finishes, the
\* cover is not opening, not closing and not closed; right after such a Close
\* worker finishes, it is not opening, not closing and closed.
C3_AfterSuccessfulOpenClose ==
    [][\A t \in Alive :
         (thread_exit(t) /\ IsCoverThread(t) /\ t.name[2] \in {"open", "close"} /\ AllOk(t))
            => /\ ~is_opening'[t.name[3]]
               /\ ~is_closing'[t.name[3]]
               /\ is_closed'[t.name[3]] = (IF t.name[2] = "open" THEN "False" ELSE "True")]_vars

\* A stop_cover request for d completes with this step: the call returns
\* without starting a thread, or the Stop thread it started finishes.
StopCompletes(d) ==
    \/ stop_cover(d) /\ StopHubFunction(d) = "None"
    \/ \E t \in Alive : thread_exit(t) /\ t.name = CoverThreadName("stop", d)

\* C4: when a stop_cover request has completed, from any prior entity state,
\* is_closed is unknown and the cover is neither opening nor closing.
C4_AfterStop ==
    [][\A d \in Devices :
         StopCompletes(d)
            => is_closed'[d] = "None" /\ ~is_opening'[d] /\ ~is_closing'[d]]_vars

\* The refresh request in a thread's history.
Update == Ev("update", TRUE, 0)

\* C5: the worker of an accepted turn_on sets is_on from false to true with
\* its first statement; whatever the repeat count and wherever a hub command
\* fails, the thread ends through its finalization (is_on false, refresh
\* requested last), and is_on always returns to false without a host call.
C5_MomentarySwitch ==
    /\ [][\A t \in Alive :
            /\ execute_movement_on(t) => ~is_on[Entity(t)] /\ is_on'[Entity(t)]
            /\ (thread_exit(t) /\ IsAwningThread(t)) => ~is_on'[Entity(t)]]_vars
    /\ [](\A t \in Alive :
            (IsAwningThread(t) /\ t.pc = "exit")
                => Len(t.ev) >= 2 /\ t.ev[Len(t.ev)] = Update /\ ~is_on[Entity(t)])
    /\ \A e \in Devices \X AwningActions : is_on[e] ~> ~is_on[e]

\* C5 witness: an Up or Down worker whose hub command failed on the second
\* try is about to end, and its switch is off again.
C5_Witness ==
    \E t \in Alive :
        /\ IsAwningThread(t) /\ t.pc = "exit"
        /\ Len(HubEvents(t)) = 2 /\ HubEvents(t)[1].ok /\ ~HubEvents(t)[2].ok
        /\ ~is_on[Entity(t)]

\* The thread object a dispatch call starts.
Started(name, hub_function) ==
    [name |-> name, pc |-> "start", i |-> 0, hub_function |-> hub_function, ev |-> <<>>]

\* C6: an open_cover for a device without live worker returns with
\* is_opening true, is_closing false, a refresh requested and exactly one
\* Open thread started, which has not run yet; close_cover likewise with the
\* flags exchanged.  The threads after the call are the threads before it and
\* the new one, whose history is empty: the call issued no hub command, the
\* hub commands are entries that thread steps add to the histories.
C6_AcceptedDispatch ==
    [][\A d \in Devices :
         /\ (open_cover(d) /\ CoverWorkers(d) = {})
               => /\ is_opening'[d] /\ ~is_closing'[d] /\ out' = "refresh"
                  /\ threads' = threads (+) SetToBag({Started(<<"cover", "open", d>>, "None")})
         /\ (close_cover(d) /\ CoverWorkers(d) = {})
               => /\ is_closing'[d] /\ ~is_opening'[d] /\ out' = "refresh"
                  /\ threads' = threads (+) SetToBag({Started(<<"cover", "close", d>>, "None")})]_vars

\* C6 witness: open_cover has just been accepted for a cover that was closed.
C6_Witness ==
    /\ out = "refresh"
    /\ \E d \in Devices :
         /\ is_opening[d] /\ ~is_closing[d] /\ is_closed[d] = "True"
         /\ CoverWorkers(d) = {Started(<<"cover", "open", d>>, "None")}

\* C7: an open_cover or close_cover for a device with a live cover worker, and
\* a turn_on for a device with a live awning worker, change no entity flag
\* and no thread (so start nothing and send nothing); and a thread is started
\* only by a host call that passes its guard, never by a thread that ends.
C7_RejectedIsNoOp ==
    [][/\ \A d \in Devices :
            ((open_cover(d) \/ close_cover(d)) /\ CoverWorkers(d) # {})
                => UNCHANGED <<cover_state, is_on, threads>>
       /\ \A d \in Devices, direction \in AwningActions :
            (turn_on(d, direction) /\ AwningWorkers(d) # {})
                => UNCHANGED <<cover_state, is_on, threads>>
       /\ BagCardinality(threads') > BagCardinality(threads)
            => \E d \in Devices :
                  \/ (open_cover(d) \/ close_cover(d)) /\ CoverWorkers(d) = {}
                  \/ stop_cover(d)
                  \/ \E direction \in AwningActions :
                        turn_on(d, direction) /\ AwningWorkers(d) = {}]_vars

\* C7 witness: a request was dropped while a Stop worker of a device is the
\* only thread alive (so the dropped request is an open_cover or close_cover
\* for that device, and the Open or Close worker has already ended).
C7_Witness ==
    /\ out = "ignored"
    /\ \E d \in Devices :
         /\ Alive = CoverWorkers(d)
         /\ Alive # {}
         /\ \A t \in Alive : t.name[2] = "stop"

\* What a thread that repeats hub command cmd n times, every one returning,
\* leaves in its history from iteration i on: the command, then a suspension
\* of s seconds except after the last.
RECURSIVE RepeatTrace(_, _, _, _)
RepeatTrace(i, n, s, cmd) ==
    IF i >= n THEN <<>>
    ELSE <<Ev(cmd, TRUE, 0), Ev("sleep", TRUE, IF i < n - 1 THEN Seconds(s) ELSE 0)>>
         \o RepeatTrace(i + 1, n, s, cmd)

\* C8: a finished Up or Down worker whose hub commands all returned has
\* requested a refresh, issued its command (on for Up, off for Down) exactly
\* `tries` times with a suspension of `sleep` seconds after each but the last,
\* held for the fixed delay, and then requested the final refresh.
C8_SwitchRepeats ==
    \A t \in Alive :
        (IsAwningThread(t) /\ t.pc = "exit" /\ AllOk(t))
        => t.ev = <<Update>>
                  \o RepeatTrace(0, tries, sleep,
                                 IF t.name[2] = "up" THEN "turn_on" ELSE "turn_off")
                  \o <<Ev("sleep", TRUE, HoldDelay), Update>>

\* C8 witness: a Down worker ends after two hub commands that returned.
C8_Witness ==
    \E t \in Alive :
        /\ IsAwningThread(t) /\ t.name[2] = "down" /\ t.pc = "exit" /\ AllOk(t)
        /\ Len(HubEvents(t)) = 2

\* C9: right after an Open or Close worker whose hub command failed finishes,
\* is_closed is unknown and the cover is neither opening nor closing.
C9_FailureLeavesUnknown ==
    [][\A t \in Alive :
         (thread_exit(t) /\ IsCoverThread(t) /\ t.name[2] \in {"open", "close"} /\ ~AllOk(t))
            => /\ is_closed'[t.name[3]] = "None"
               /\ ~is_opening'[t.name[3]]
               /\ ~is_closing'[t.name[3]]]_vars

\* The suspensions of at least one half second in a history.
Suspensions(ev) == SelectSeq(ev, LAMBDA e : e.k = "sleep" /\ e.t > 0)

\* C10: a finished Open or Close worker whose hub commands all returned has
\* issued its command (on for Open, off for Close) exactly `tries` times,
\* suspending for `sleep` between successive commands, for every tries >= 1.
C10_CoverRepeats ==
    \A t \in Alive :
        (IsCoverThread(t) /\ t.name[2] \in {"open", "close"} /\ t.pc = "exit"
           /\ AllOk(t) /\ tries >= 1)
        => LET cmd == IF t.name[2] = "open" THEN "turn_on" ELSE "turn_off"
           IN /\ HubEvents(t) = [n \in 1..tries |-> Ev(cmd, TRUE, 0)]
              /\ Suspensions(t.ev) = [n \in 1..(tries - 1) |-> Ev("sleep", TRUE, Seconds(sleep))]

\* ------------------------------------------------------------ C11 .. C19
\* The guard the dispatch calls of the platform of thread t consult, asked
\* about the device of t.
GuardOf(t) ==
    IF IsCoverThread(t) THEN Cover_has_running_threads(t.name[3])
    ELSE Awning_has_running_threads(t.name[3])

\* Thread t has performed its finalization: the last statement of its finally
\* block, the refresh request, is the last entry of its history.
Finalized(t) == t.pc = "exit" /\ t.ev # <<>> /\ t.ev[Len(t.ev)] = Update

\* The step starts a thread: one more thread is listed after it.
Starts == BagCardinality(threads') > BagCardinality(threads)

\* C11: the guard of its platform reports the device of every started thread
\* as busy as long as the thread is listed; a thread stops being listed only
\* after its finalization; so an open_cover, close_cover or turn_on that the
\* guard admits starts its thread when every earlier worker of the device has
\* finalized and gone.
C11_MarkerUntilFinalized ==
    /\ [](\A t \in Alive : GuardOf(t))
    /\ [][BagCardinality(threads') < BagCardinality(threads)
            => \E t \in Alive : Finalized(t) /\ threads' = threads (-) SetToBag({t})]_vars
    /\ [][\A d \in Devices :
            /\ (Starts /\ (open_cover(d) \/ close_cover(d)))
                  => CoverWorkers(d) = {}
            /\ \A direction \in AwningActions :
                 (Starts /\ turn_on(d, direction))
                     => AwningWorkers(d) = {}]_vars

\* C11 witness: a Close worker has been admitted for a cover that an Open
\* worker has finalized before (is_closed is False), and it is the only worker
\* of the device.
C11_Witness ==
    \E d \in Devices :
        /\ is_closed[d] = "False" /\ is_closing[d]
        /\ CoverWorkers(d) = {Started(<<"cover", "close", d>>, "None")}
        /\ Count(CoverWorkers(d)) = 1

\* C12: a stop_cover called while is_opening is true starts one Stop thread
\* bound to the hub off command, called while is_closing is true one bound to
\* the hub on command, and leaves every other thread as it is; a Stop thread
\* issues the command it was bound to at the call exactly once, and no other.
C12_StopSendsOpposite ==
    /\ [][\A d \in Devices :
            (stop_cover(d) /\ (is_opening[d] \/ is_closing[d]))
               => \E hub_function \in {"turn_on", "turn_off"} :
                     /\ is_opening[d] => hub_function = "turn_off"
                     /\ is_closing[d] => hub_function = "turn_on"
                     /\ threads' = threads (+) SetToBag({Started(<<"cover", "stop", d>>,
                                                                  hub_function)})]_vars
    /\ [](\A t \in Alive :
            (IsCoverThread(t) /\ t.name[2] = "stop")
               => /\ t.hub_function \in {"turn_on", "turn_off"}
                  /\ Len(HubEvents(t)) = (IF t.pc = "start" THEN 0 ELSE 1)
                  /\ \A n \in 1..Len(HubEvents(t)) : HubEvents(t)[n].k = t.hub_function)

\* C12 witness: stop_cover was called while the cover was closing; its Stop
\* thread has sent the one hub on command and finalized, and the Close thread
\* it did not interrupt has sent its hub off command and finalized as well.
C12_Witness ==
    \E d \in Devices : \E t \in CoverWorkers(d), u \in CoverWorkers(d) :
        /\ t.name[2] = "stop" /\ t.pc = "exit"
        /\ HubEvents(t) = <<Ev("turn_on", TRUE, 0)>>
        /\ u.name[2] = "close" /\ u.pc = "exit"
        /\ HubEvents(u) = <<Ev("turn_off", TRUE, 0)>>

\* The thread is between the start of its first hub command and its finally
\* block.
Pulsing(t) == IsAwningThread(t) /\ t.pc \in {"repeat", "sleep", "hold", "fin_on"}

\* C13: is_on of a switch is true in every state in which a worker of the
\* entity is between its first hub command and its finalization, whatever the
\* host calls meanwhile; and is_on changes only with the first statement of a
\* worker and with its finalization.
C13_OnWhilePulsing ==
    /\ [](\A t \in Alive : Pulsing(t) => is_on[Entity(t)])
    /\ [][is_on' # is_on
            => \E t \in Alive : execute_movement_on(t) \/ execute_movement_fin_on(t)]_vars

\* A thread with this name is listed by threading.enumerate().
NameAlive(n) == \E t \in Alive : t.name = n

\* C14: every started thread, cover or awning, finishes: whenever its name
\* is listed, it is later not listed (again and again no thread of that name
\* is alive); a listed thread changes and leaves only by a statement of its
\* own, whatever the host calls meanwhile; and the guard of either platform
\* never reports a device as busy forever, so a later request for the device
\* is admitted, also after a hub command that raised.
C14_WorkersTerminate ==
    /\ \A n \in CoverThreadNames \cup AwningThreadNames : []<>~NameAlive(n)
    /\ [][\A t \in Alive :
            CopiesIn(t, threads') < CopiesIn(t, threads) => ThreadStep(t)]_vars
    /\ \A d \in Devices :
         /\ []<>~Cover_has_running_threads(d)
         /\ []<>~Awning_has_running_threads(d)

\* C14 witness: an Open worker whose hub command raised has run to the end of
\* its finalization and is the only thread listed; the cover is not opening
\* any more.
C14_Witness ==
    \E t \in Alive :
        /\ Alive = {t} /\ IsCoverThread(t) /\ t.name[2] = "open"
        /\ Finalized(t) /\ ~AllOk(t)
        /\ ~is_opening[t.name[3]]

\* The step changes a field of an entity of device d.
EntityChanged(d) ==
    \/ is_closed'[d] # is_closed[d]
    \/ is_opening'[d] # is_opening[d]
    \/ is_closing'[d] # is_closing[d]
    \/ \E direction \in AwningActions : is_on'[<<d, direction>>] # is_on[<<d, direction>>]

\* C15: a request that starts no thread is a request for a device that has a
\* live worker of its own, whatever workers other devices have; and a step
\* that changes the cover flags or the switch states of a device is no
\* statement of a thread of another device.
C15_GuardPerDevice ==
    [][\A d \in Devices :
         /\ (threads' = threads /\ (open_cover(d) \/ close_cover(d)))
               => CoverWorkers(d) # {}
         /\ \A direction \in AwningActions :
              (threads' = threads /\ turn_on(d, direction))
                  => AwningWorkers(d) # {}
         /\ EntityChanged(d)
               => ~\E t \in Alive : t.name[3] # d /\ ThreadStep(t)]_vars

\* C15 witness: the Open workers of two different covers are alive together,
\* each about to send its hub command: the second was admitted while the
\* first was alive.
C15_Witness ==
    /\ out = "refresh"
    /\ Alive = { Started(<<"cover", "open", d>>, "None") : d \in Devices }
    /\ \A d \in Devices : is_opening[d]

\* The Open and Close workers alive for device d.
OpenCloseWorkers(d) ==
    { t \in Alive : IsCoverThread(t) /\ t.name[2] \in {"open", "close"} /\ t.name[3] = d }

\* C16: when open_cover, close_cover and turn_on are run by concurrent host
\* threads, interleaved statement by statement, at most one Open or Close
\* worker and at most one Up or Down worker of a device is alive in every
\* reachable state.
C16_AtomicDispatch ==
    \A d \in Devices :
        /\ Count(OpenCloseWorkers(d)) <= 1
        /\ Count(AwningWorkers(d)) <= 1

\* C17: a stop_cover of a cover that is neither opening nor closing starts no
\* thread (so sends no hub command), requests no refresh and leaves
\* is_closed, is_opening and is_closing as they are.
C17_IdleStopIsNoOp ==
    [][\A d \in Devices :
         (stop_cover(d) /\ ~is_opening[d] /\ ~is_closing[d])
            => /\ UNCHANGED <<cover_state, is_on, threads>>
               /\ out' # "refresh"]_vars

\* C17 witness: stop_cover has returned early for the only cover, which has no
\* worker and is known to be closed.
C17_Witness ==
    /\ out = "stopped"
    /\ \E d \in Devices :
         /\ cover_devices = {d} /\ Alive = {}
         /\ is_closed[d] = "True" /\ ~is_opening[d] /\ ~is_closing[d]

\* C18: with the host calls arriving one at a time, no cover is opening and
\* closing at once in any reachable state; and an admitted open_cover finds
\* is_closing false, an admitted close_cover finds is_opening false, so the
\* flags are not both true between the two flag writes of the call either.
C18_NotOpeningAndClosing ==
    /\ [](\A d \in Devices : ~(is_opening[d] /\ is_closing[d]))
    /\ [][\A d \in Devices :
            /\ (Starts /\ open_cover(d)) => ~is_closing[d]
            /\ (Starts /\ close_cover(d)) => ~is_opening[d]]_vars

\* C18 witness: a cover that an Open worker left open is closing, and a
\* stop_cover has started a Stop thread beside its Close worker.
C18_Witness ==
    \E d \in Devices :
        /\ is_closing[d] /\ ~is_opening[d] /\ is_closed[d] = "False"
        /\ \E t \in CoverWorkers(d), u \in CoverWorkers(d) :
              t.name[2] = "close" /\ u.name[2] = "stop"

\* C19: with the host calls arriving one at a time, in every reachable state
\* a cover whose device has no live worker is neither opening nor closing,
\* and a switch whose entity has no live worker is off.
C19_FlagsDoNotOutliveWork ==
    /\ \A d \in Devices :
         CoverWorkers(d) = {} => ~is_opening[d] /\ ~is_closing[d]
    /\ \A d \in Devices, direction \in AwningActions :
         ~NameAlive(AwningThreadName(direction, d)) => ~is_on[<<d, direction>>]

\* C19 witness: no thread is alive, and a Close worker has finished before: the
\* cover is closed, and neither opening nor closing.
C19_Witness ==
    /\ Alive = {}
    /\ \E d \in Devices :
         is_closed[d] = "True" /\ ~is_opening[d] /\ ~is_closing[d]

====
